---- MODULE Spec2Model ----
(***************************************************************************)
(* Model of the approximate-duplicate detection and resolution code of     *)
(* data_preprocessing/eh_unique_frame_extraction/approx_dups.py.           *)
(*                                                                         *)
(* The dataset is a set of samples (ids), each with a file path and an     *)
(* optional approx_dup_group_id field.  A saved view is a stored query     *)
(* (a selection of ids), evaluated against the dataset when it is loaded.  *)
(* The similarity index is an external collaborator: find_duplicates       *)
(* yields a neighbor map, duplicates_view selects every id the map names.  *)
(*                                                                         *)
(* Spec runs the functions as whole calls.  SpecSteps runs them statement  *)
(* by statement, with calls that may raise; SpecRace runs two detections   *)
(* concurrently; SpecSelect compares the survivor of one group under two   *)
(* storage orders.  SpecUpload models GCSImageHandler.upload_images and    *)
(* SpecClass MultiClassMaskToYOLOConverter.get_class_id.                   *)
(***************************************************************************)
EXTENDS Integers, Sequences, FiniteSets

\* ------------------------------------------------------------------ bounds
NItems == 3        \* samples the dataset is created with

NColors == 4       \* colors, other than black, the masks are drawn with

MaxSelector == 9   \* largest threshold or fraction a caller supplies

NVideos == 5       \* video files the extractor finds
NProcesses == 1    \* worker processes of the pool (the machine's CPU count)
MaxFps == 2        \* largest frames-per-second a video reports
MaxFrames == 2     \* most frames a video yields
MaxFrameRate == 3  \* largest FRAME_RATE of the environment

Items == 1..NItems

\* The value of approx_dup_group_id on a sample that was never stamped.
NoGroup == 0

ViewNames == {"approx_dup_view", "approx_dup_groups_view"}

VARIABLES
    samples,              \* ids of the samples in the dataset
    filepath,             \* sample id -> file path (a sequence of characters)
    approx_dup_group_id,  \* sample id -> stamped group id, NoGroup when absent
    saved_views,          \* view name -> [saved, ids]: the dataset's saved views
    brain_computed,       \* the brain key "sim" holds a similarity index
    neighbors_map,        \* index.neighbors_map of the latest find_duplicates
    approx_dup_view,      \* ids of the view an operation loaded last
    remove_sample_ids,    \* ids an operation passed to delete_samples last
    result,               \* last call: its name, outcome and response
    computed,             \* history: a detection run completed, no policy since
    detected              \* history: some detection run has completed

\* The two collections whose groups are compared: the same members and paths,
\* stored in their own order.
Collections == {"first", "second"}

VARIABLES
    group_view,           \* collection -> ids of one group in storage order
    kept_id               \* collection -> id its group kept, NoGroup before

\* Pixel colors: black, the background, and the colors of the classes.
Black == 0

Colors == Black..NColors

VARIABLES
    class_colors,         \* self.class_colors: color -> class id
    color_key,            \* the color of the latest get_class_id call
    class_id              \* the class id that call returned

VARIABLES
    output_bucket,        \* blob names in the output bucket
    annotation_set_bucket,\* blobs [dir, path] in the annotation set bucket
    files_to_upload,      \* blob paths upload_images found missing last
    annotation_uploads,   \* blob paths it then put in the annotation set
    last_call             \* the operation of the pipeline that ran last

VARIABLES
    pc,                   \* the statement the caller is at, "idle" between calls
    running,              \* the function being executed, "none" between calls
    next_entry,           \* index of the neighbor map entry to stamp next
    group_ids,            \* group ids the loop of Keep-One has yet to visit
    saved_by_call,        \* history: views the latest detection call saved
    old_views,            \* history: views saved when that call began
    failed                \* history: some call was ended by a storage failure

\* The two detection runs that are executed concurrently.
Runs == {"A", "B"}

VARIABLES
    run_pc,               \* run -> the statement the run is at
    run_map,              \* run -> index.neighbors_map of the run's index
    run_entry,            \* run -> index of the map entry it stamps next
    interleaved           \* history: a run took a step inside the other

\* An argument is None or a number: the empty tuple, or the number in a tuple.
None == <<>>

\* The values of the selectors threshold and fraction.
Selectors == {None} \cup {<<v>> : v \in 0..MaxSelector}

VARIABLES
    threshold,            \* threshold of the latest find_approximate_duplicates
    fraction,             \* fraction of that call
    find_duplicates_kwargs\* keyword arguments index.find_duplicates got

Videos == 1..NVideos

VARIABLES
    frame_rate,           \* FRAME_RATE, the same for every video of a run
    processed,            \* video -> "queued", or how process_video ended
    call                  \* the latest extract_frames call and its outcome

datasetVars == <<samples, filepath, approx_dup_group_id, saved_views,
                 brain_computed, neighbors_map, approx_dup_view,
                 remove_sample_ids, result, computed, detected>>

selectVars == <<group_view, kept_id>>

\* No group is under comparison.
SelectIdle ==
    /\ group_view = [c \in Collections |-> <<>>]
    /\ kept_id = [c \in Collections |-> NoGroup]

classVars == <<class_colors, color_key, class_id>>

\* self.class_colors = {}: a converter that has processed no mask.
ClassIdle ==
    /\ class_colors = <<>>
    /\ color_key = Black
    /\ class_id = 0

uploadVars == <<output_bucket, annotation_set_bucket, files_to_upload,
                annotation_uploads, last_call>>

\* Empty buckets, nothing uploaded.
UploadIdle ==
    /\ output_bucket = {}
    /\ annotation_set_bucket = {}
    /\ files_to_upload = {}
    /\ annotation_uploads = {}
    /\ last_call = "none"

stepVars == <<pc, running, next_entry, group_ids, saved_by_call, old_views,
              failed>>

\* No call is in progress, none was made.
StepsIdle ==
    /\ pc = "idle"
    /\ running = "none"
    /\ next_entry = 1
    /\ group_ids = {}
    /\ saved_by_call = {}
    /\ old_views = {}
    /\ failed = FALSE

raceVars == <<run_pc, run_map, run_entry, interleaved>>

\* No run has been started.
RaceIdle ==
    /\ run_pc = [r \in Runs |-> "start"]
    /\ run_map = [r \in Runs |-> <<>>]
    /\ run_entry = [r \in Runs |-> 1]
    /\ interleaved = FALSE

selectorVars == <<threshold, fraction, find_duplicates_kwargs>>

\* find_approximate_duplicates has not reached the index.
SelectorIdle ==
    /\ threshold = None
    /\ fraction = None
    /\ find_duplicates_kwargs = <<>>

extractVars == <<frame_rate, processed, call>>

\* What a video file turns out to be when extract_frames works on it:
\* its download fails, it cannot be opened, or it opens with a frames-per-
\* second value and a number of frames; fail_at is the image whose upload
\* or move fails (0: none does).
VideoInputs ==
    {[kind |-> k, fps |-> 0, nframes |-> 0, fail_at |-> 0] :
        k \in {"download_error", "cannot_open"}}
    \cup
    {[kind |-> "video", fps |-> f, nframes |-> n, fail_at |-> a] :
        f \in 0..MaxFps, n \in 0..MaxFrames, a \in 0..MaxFrames}

\* The message of a successful call.
Successfully(image_count) ==
    [text |-> "Successfully extracted", frames |-> image_count, error |-> ""]

\* The message of a failed call, str(e) included.
ErrorProcessing(e) ==
    [text |-> "Error processing", frames |-> 0, error |-> e]

\* No extract_frames call yet.
NoCall ==
    [video |-> 0,
     input |-> [kind |-> "video", fps |-> 0, nframes |-> 0, fail_at |-> 0],
     raised |-> FALSE, ok |-> TRUE, message |-> Successfully(0)]

\* The extractor has not started; FRAME_RATE has its default.
ExtractIdle ==
    /\ frame_rate = 1
    /\ processed = [v \in Videos |-> "queued"]
    /\ call = NoCall

\* The state the operations on the dataset leave alone.
auxVars ==
    <<selectVars, classVars, uploadVars, stepVars, raceVars, selectorVars,
      extractVars>>

vars == <<datasetVars, auxVars>>

\* ------------------------------------------------------------- file paths
\* The k-th path of a pool whose lexicographic order is the order of k:
\* <<1>>, <<1,1>>, <<2>>, <<2,1>>, ...  (a path and its proper extension).
PoolPath(k) == IF k % 2 = 1 THEN <<(k + 1) \div 2>> ELSE <<k \div 2, 1>>

\* Python / MongoDB string order: the first differing character decides,
\* a proper prefix sorts first.
RECURSIVE LexLess(_, _)
LexLess(a, b) ==
    IF b = <<>> THEN FALSE
    ELSE IF a = <<>> THEN TRUE
    ELSE IF Head(a) # Head(b) THEN Head(a) < Head(b)
    ELSE LexLess(Tail(a), Tail(b))

\* Path assignments the dataset may be created with: distinct files, their
\* order that of the ids rotated, or reversed (the operations treat ids as
\* opaque keys, so the neighbor maps, ranging over all ids, meet every order
\* of paths).
PathAssignments ==
    { [i \in Items |-> PoolPath((i % NItems) + 1)],
      [i \in Items |-> PoolPath(NItems + 1 - i)] }

\* ------------------------------------------------------------------ views
NotSaved == [saved |-> FALSE, ids |-> {}]

list_saved_views == {n \in ViewNames : saved_views[n].saved}

\* A Select stage evaluated against the dataset: the selected ids that are
\* still samples of it.
SelectView(ids) == ids \cap samples

load_saved_view(name) == SelectView(saved_views[name].ids)

\* ------------------------------------------------------- similarity index
\* The neighbor lists a representative may have over the duplicates D: a
\* sample is a representative because a duplicate was mapped to it, so the
\* list is not empty (as sets: the code reads only the neighbors' ids, not
\* their order or distance).
NeighborSets(D) == SUBSET D \ {{}}

\* The neighbor maps whose representatives are, in iteration order, the
\* sequence reps: each representative with a set of neighbors among D.
RECURSIVE MapsOver(_, _)
MapsOver(reps, D) ==
    IF reps = <<>> THEN {<<>>}
    ELSE { <<[rep |-> Head(reps), dups |-> d]>> \o m :
             d \in NeighborSets(D), m \in MapsOver(Tail(reps), D) }

\* The sequences of n distinct items of S.
RECURSIVE Arrangements(_, _)
Arrangements(S, n) ==
    IF n = 0 THEN {<<>>}
    ELSE UNION { { <<r>> \o a : a \in Arrangements(S \ {r}, n - 1) } : r \in S }

\* Neighbor maps find_duplicates may yield over the samples S: a sequence (the
\* map's iteration order) of distinct representatives, the samples it keeps
\* as non-duplicates, each with the set of its neighbors among the samples it
\* flags as duplicates.  An item may be listed under several representatives.
NeighborMaps(S) ==
    UNION { UNION { MapsOver(reps, S \ {reps[k] : k \in 1..n})
                    : reps \in Arrangements(S, n) }
            : n \in 0..Cardinality(S) }

\* ids = [rep_id] + [d[0] for d in dups]
GroupIds(entry) == {entry.rep} \cup entry.dups

\* index.duplicates_view(): the samples the neighbor map names, as
\* representative or as neighbor.
DuplicatesViewIds(map) == UNION { GroupIds(map[k]) : k \in 1..Len(map) }

\* -------------------------------------------------------------- operations
Result(op, status, n, d) ==
    [op |-> op, status |-> status, num_images_with_approx_dups |-> n,
     num_dups |-> d]

\* Variant: the loop walks the dataset, not the subview of the group.
StampOneWholeDataset(gid, entry, view) ==
    [i \in Items |-> IF i \in samples THEN entry.rep ELSE gid[i]]

\* for sample in subview: sample["approx_dup_group_id"] = rep_id; sample.save()
StampOne(gid, entry, view) ==
    [i \in Items |-> IF i \in view \cap GroupIds(entry) THEN entry.rep ELSE gid[i]]

\* for rep_id, dups in index.neighbors_map.items(): ... from the k-th entry on
RECURSIVE StampFrom(_, _, _, _)
StampFrom(gid, map, view, k) ==
    IF k > Len(map) THEN gid
    ELSE StampFrom(StampOne(gid, map[k], view), map, view, k + 1)

\* Variant: the neighbor map is walked from its last entry to its first.
StampGroupsReversed(gid, map, view) ==
    StampFrom(gid, [k \in 1..Len(map) |-> map[Len(map) + 1 - k]], view, 1)

\* The group ids gen_approx_duplicate_groups_view leaves on the samples.
StampGroups(gid, map, view) == StampFrom(gid, map, view, 1)

\* Variant: only the neighbors (the index's duplicate ids) are saved.
FlaggedViewStageDupsOnly(map) == UNION { map[k].dups : k \in 1..Len(map) }

\* approx_dup_view = index.duplicates_view(); dataset.save_view(...): the ids
\* of the stage saved as "approx_dup_view".
FlaggedViewStage(map) == DuplicatesViewIds(map)

\* Variant: the representatives are not subtracted.
NumDupsAllFlagged(num_images, num_groups) == num_images

\* Variant: the operands of the subtraction are swapped.
NumDupsSwapped(num_images, num_groups) == num_groups - num_images

\* num_dups = num_images_with_approx_dups - num_approx_dup_groups
NumDups(num_images, num_groups) == num_images - num_groups

\* dataset.delete_samples(ids): the samples go, and their fields with them.
FieldsAfterDelete(gid, ids) ==
    [i \in Items |-> IF i \in ids THEN NoGroup ELSE gid[i]]

\* Variant: the policies run without the guard.
NotComputedUnchecked == FALSE

\* if "approx_dup_view" not in dataset.list_saved_views(): raise ValueError
NotComputed == "approx_dup_view" \notin list_saved_views

\* Variant: only "approx_dup_view" is deleted.
DeleteFlaggedViewOnly(sv) ==
    [n \in ViewNames |-> IF n = "approx_dup_view" THEN NotSaved ELSE sv[n]]

\* dataset.delete_saved_view("approx_dup_view"), then
\* dataset.delete_saved_view("approx_dup_groups_view")
DeleteSavedViews(sv) == [n \in ViewNames |-> NotSaved]

\* Variant: the representatives are spared, only their neighbors deleted.
RemoveAllIdsKeepReps(view) ==
    view \ {neighbors_map[k].rep : k \in 1..Len(neighbors_map)}

\* approx_dup_view.values("id") of remove_all_approximate_duplicates
RemoveAllIds(view) == view

\* approx_dup_view.distinct("approx_dup_group_id")
DistinctGroupIds(view, gid) == {gid[i] : i \in view} \ {NoGroup}

\* approx_dup_view.match(F("approx_dup_group_id") == group_id)
MatchGroup(view, gid, g) == {i \in view : gid[i] = g}

\* Variant: the group is left in the order of the ids, not sorted by path.
RECURSIVE SortById(_)
SortById(S) ==
    IF S = {} THEN <<>>
    ELSE LET first == CHOOSE i \in S : \A j \in S : i <= j
         IN  <<first>> \o SortById(S \ {first})

\* group_view.sort_by("filepath").values("id")
RECURSIVE SortByFilepath(_)
SortByFilepath(S) ==
    IF S = {} THEN <<>>
    ELSE LET first == CHOOSE i \in S :
                         \A j \in S \ {i} : LexLess(filepath[i], filepath[j])
         IN  <<first>> \o SortByFilepath(S \ {first})

\* Variant: values("id")[1:2], the second id alone.
SecondOnly(ids) == IF Len(ids) < 2 THEN <<>> ELSE <<ids[2]>>

\* Variant: values("id")[0:], the whole group.
WholeGroup(ids) == ids

\* group_view.values("id")[1:]
AllButFirst(ids) == IF ids = <<>> THEN <<>> ELSE Tail(ids)

SeqToSet(s) == {s[k] : k \in 1..Len(s)}

\* remove_sample_ids after the loop over the distinct group ids
DeduplicateIds(view, gid) ==
    UNION { SeqToSet(AllButFirst(SortByFilepath(MatchGroup(view, gid, g))))
            : g \in DistinctGroupIds(view, gid) }

\* fob.compute_similarity(self.dataset, brain_key="sim", metric="cosine")
compute_similarity ==
    /\ ~brain_computed
    /\ brain_computed' = TRUE
    /\ result' = Result("compute_similarity", "ok", 0, 0)
    /\ approx_dup_view' = {}
    /\ remove_sample_ids' = {}
    /\ UNCHANGED <<samples, filepath, approx_dup_group_id, saved_views,
                   neighbors_map, computed, detected>>
    /\ UNCHANGED auxVars

\* Variant: approx_dup_view is saved, empty, before the index is looked up.
find_approximate_duplicates_saves_first ==
    /\ ~brain_computed
    /\ saved_views' = [saved_views EXCEPT
                         !["approx_dup_view"] = [saved |-> TRUE, ids |-> {}]]
    /\ result' = Result("find_approximate_duplicates", "ConfigurationError", 0, 0)
    /\ approx_dup_view' = {}
    /\ remove_sample_ids' = {}
    /\ UNCHANGED <<samples, filepath, approx_dup_group_id, brain_computed,
                   neighbors_map, computed, detected>>
    /\ UNCHANGED auxVars

\* dataset.load_brain_results(brain_key) finds no results under the key.
find_approximate_duplicates_no_index ==
    /\ ~brain_computed
    /\ result' = Result("find_approximate_duplicates", "ConfigurationError", 0, 0)
    /\ approx_dup_view' = {}
    /\ remove_sample_ids' = {}
    /\ UNCHANGED <<samples, filepath, approx_dup_group_id, saved_views,
                   brain_computed, neighbors_map, computed, detected>>
    /\ UNCHANGED auxVars

find_approximate_duplicates(map) ==
    /\ brain_computed
    /\ LET flagged == FlaggedViewStage(map)
           dup_ids == SelectView(DuplicatesViewIds(map))
           loaded  == SelectView(flagged)
           num_images_with_approx_dups == Cardinality(loaded)
           num_approx_dup_groups == Len(map)
       IN  /\ neighbors_map' = map
           /\ saved_views' =
                 [n \in ViewNames |->
                    IF n = "approx_dup_view"
                    THEN [saved |-> TRUE, ids |-> flagged]
                    ELSE [saved |-> TRUE, ids |-> dup_ids]]
           /\ approx_dup_group_id' =
                 StampGroups(approx_dup_group_id, map, dup_ids)
           /\ approx_dup_view' = loaded
           /\ result' = Result("find_approximate_duplicates", "ok",
                               num_images_with_approx_dups,
                               NumDups(num_images_with_approx_dups,
                                       num_approx_dup_groups))
    /\ remove_sample_ids' = {}
    /\ computed' = TRUE
    /\ detected' = TRUE
    /\ UNCHANGED <<samples, filepath, brain_computed>>
    /\ UNCHANGED auxVars

get_approximate_duplicate_groups ==
    /\ IF "approx_dup_groups_view" \in list_saved_views
       THEN /\ approx_dup_view' = load_saved_view("approx_dup_groups_view")
            /\ result' = Result("get_approximate_duplicate_groups", "ok", 0, 0)
       ELSE /\ approx_dup_view' = {}
            /\ result' = Result("get_approximate_duplicate_groups",
                                "NotFoundError", 0, 0)
    /\ remove_sample_ids' = {}
    /\ UNCHANGED <<samples, filepath, approx_dup_group_id, saved_views,
                   brain_computed, neighbors_map, computed, detected>>
    /\ UNCHANGED auxVars

\* The body both policies share: the guard, the batch deletion of `ids` (a
\* function of the loaded view), then the deletion of the two saved views;
\* the second delete_saved_view raises when that view is not saved.
ResolutionPolicy(op, ids) ==
    /\ UNCHANGED auxVars
    /\ IF NotComputed
       THEN /\ result' = Result(op, "NotComputedError", 0, 0)
            /\ approx_dup_view' = {}
            /\ remove_sample_ids' = {}
            /\ UNCHANGED <<samples, filepath, approx_dup_group_id, saved_views,
                           brain_computed, neighbors_map, computed, detected>>
       ELSE /\ approx_dup_view' = load_saved_view("approx_dup_view")
            /\ remove_sample_ids' = ids
            /\ samples' = samples \ ids
            /\ approx_dup_group_id' = FieldsAfterDelete(approx_dup_group_id, ids)
            /\ saved_views' = DeleteSavedViews(saved_views)
            /\ result' = Result(op,
                                IF "approx_dup_groups_view" \in list_saved_views
                                THEN "ok" ELSE "NotFoundError", 0, 0)
            /\ computed' = ("approx_dup_groups_view" \notin list_saved_views
                            /\ computed)
            /\ UNCHANGED <<filepath, brain_computed, neighbors_map, detected>>

remove_all_approximate_duplicates ==
    ResolutionPolicy("remove_all_approximate_duplicates",
                     RemoveAllIds(load_saved_view("approx_dup_view")))

deduplicate_approximate_duplicates ==
    ResolutionPolicy("deduplicate_approximate_duplicates",
                     DeduplicateIds(load_saved_view("approx_dup_view"),
                                    approx_dup_group_id))

\* A sample deleted by another user of the dataset, outside these functions,
\* between a detection run and the policy that resolves it (a deletion at
\* another time only makes the dataset of the next run smaller).
delete_out_of_band(i) ==
    /\ i \in samples
    /\ ~NotComputed
    /\ samples' = samples \ {i}
    /\ approx_dup_group_id' = FieldsAfterDelete(approx_dup_group_id, {i})
    /\ result' = Result("delete_out_of_band", "ok", 0, 0)
    /\ approx_dup_view' = {}
    /\ remove_sample_ids' = {}
    /\ UNCHANGED <<filepath, saved_views, brain_computed, neighbors_map,
                   computed, detected>>
    /\ UNCHANGED auxVars

Init ==
    /\ samples = Items
    /\ filepath \in PathAssignments
    /\ approx_dup_group_id = [i \in Items |-> NoGroup]
    /\ saved_views = [n \in ViewNames |-> NotSaved]
    /\ brain_computed = FALSE
    /\ neighbors_map = <<>>
    /\ approx_dup_view = {}
    /\ remove_sample_ids = {}
    /\ result = Result("none", "ok", 0, 0)
    /\ computed = FALSE
    /\ detected = FALSE
    /\ SelectIdle
    /\ ClassIdle
    /\ UploadIdle
    /\ StepsIdle
    /\ RaceIdle
    /\ SelectorIdle
    /\ ExtractIdle

Next ==
    \/ compute_similarity
    \/ find_approximate_duplicates_no_index
    \/ \E map \in NeighborMaps(samples) : find_approximate_duplicates(map)
    \/ get_approximate_duplicate_groups
    \/ remove_all_approximate_duplicates
    \/ deduplicate_approximate_duplicates
    \/ \E i \in Items : delete_out_of_band(i)

Spec == Init /\ [][Next]_vars

\* ------------------------------------------- one group, two storage orders
\* The orders in which a collection may store the members S of a group.
RECURSIVE StorageOrders(_)
StorageOrders(S) ==
    IF S = {} THEN {<<>>}
    ELSE UNION { {<<i>> \o rest : rest \in StorageOrders(S \ {i})} : i \in S }

\* One sample put into a view already sorted by path, after the samples that
\* do not sort after it.
RECURSIVE InsertByFilepath(_, _)
InsertByFilepath(sorted, i) ==
    IF sorted = <<>> THEN <<i>>
    ELSE IF LexLess(filepath[i], filepath[Head(sorted)])
         THEN <<i>> \o sorted
         ELSE <<Head(sorted)>> \o InsertByFilepath(Tail(sorted), i)

\* Variant: the view is left in its storage order.
StorageOrder(view) == view

\* group_view.sort_by("filepath") of a view read in its storage order
RECURSIVE SortViewByFilepath(_)
SortViewByFilepath(view) ==
    IF view = <<>> THEN <<>>
    ELSE InsertByFilepath(SortViewByFilepath(Tail(view)), Head(view))

\* The id that group_view.values("id")[1:] leaves out.
KeptOf(view) == Head(SortViewByFilepath(view))

\* The sort and select step of the loop body, on the group of collection c.
select_survivor(c) ==
    /\ group_view[c] # <<>>
    /\ kept_id' = [kept_id EXCEPT ![c] = KeptOf(group_view[c])]
    /\ UNCHANGED <<group_view, datasetVars, classVars, uploadVars, stepVars,
                   raceVars,
                   selectorVars, extractVars>>

\* Collection c is stored again, its members in another order.
restore(c, order) ==
    /\ order # group_view[c]
    /\ group_view' = [group_view EXCEPT ![c] = order]
    /\ UNCHANGED <<kept_id, datasetVars, classVars, uploadVars, stepVars,
                   raceVars,
                   selectorVars, extractVars>>

\* A group of at least one member, held by both collections, each in an
\* order of its own, over one assignment of paths.
InitSelect ==
    /\ samples = Items
    /\ filepath \in PathAssignments
    /\ approx_dup_group_id = [i \in Items |-> NoGroup]
    /\ saved_views = [n \in ViewNames |-> NotSaved]
    /\ brain_computed = FALSE
    /\ neighbors_map = <<>>
    /\ approx_dup_view = {}
    /\ remove_sample_ids = {}
    /\ result = Result("none", "ok", 0, 0)
    /\ computed = FALSE
    /\ detected = FALSE
    /\ \E members \in SUBSET Items \ {{}} :
          group_view \in [Collections -> StorageOrders(members)]
    /\ kept_id = [c \in Collections |-> NoGroup]
    /\ ClassIdle
    /\ UploadIdle
    /\ StepsIdle
    /\ RaceIdle
    /\ SelectorIdle
    /\ ExtractIdle

NextSelect ==
    \/ \E c \in Collections : select_survivor(c)
    \/ \E c \in Collections :
          \E order \in StorageOrders(SeqToSet(group_view[c])) : restore(c, order)

SpecSelect == InitSelect /\ [][NextSelect]_vars

\* ------------------------------------------------- mask colors to classes
\* A dataset on which nothing has been computed, its paths in one order.
DatasetIdle ==
    /\ samples = Items
    /\ filepath = [i \in Items |-> PoolPath(i)]
    /\ approx_dup_group_id = [i \in Items |-> NoGroup]
    /\ saved_views = [n \in ViewNames |-> NotSaved]
    /\ brain_computed = FALSE
    /\ neighbors_map = <<>>
    /\ approx_dup_view = {}
    /\ remove_sample_ids = {}
    /\ result = Result("none", "ok", 0, 0)
    /\ computed = FALSE
    /\ detected = FALSE

\* Variant: class ids are counted from one.
NewClassIdFromOne(cc) == Cardinality(DOMAIN cc) + 1

\* len(self.class_colors)
NewClassId(cc) == Cardinality(DOMAIN cc)

\* get_class_id(color), called by mask_to_yolo_segmentation for a color of
\* the mask that is not the black background.
get_class_id(color) ==
    /\ color # Black
    /\ color_key' = color
    /\ class_colors' =
         IF color \notin DOMAIN class_colors
         THEN [c \in DOMAIN class_colors \cup {color} |->
                 IF c = color THEN NewClassId(class_colors) ELSE class_colors[c]]
         ELSE class_colors
    /\ class_id' = class_colors'[color]
    /\ UNCHANGED <<datasetVars, selectVars, uploadVars, stepVars, raceVars,
                   selectorVars, extractVars>>

InitClass ==
    /\ DatasetIdle /\ SelectIdle /\ ClassIdle /\ UploadIdle /\ StepsIdle
    /\ RaceIdle
    /\ SelectorIdle
    /\ ExtractIdle

NextClass == \E color \in Colors : get_class_id(color)

SpecClass == InitClass /\ [][NextClass]_vars

\* ------------------------------------------------------ upload to buckets
\* self.local_dir, as a path.
LocalDir == <<0>>

\* os.path.join(root, file) for the k-th file under the local directory.
LocalPath(k) == LocalDir \o PoolPath(k)

\* os.path.relpath(local_path, self.local_dir)
RelPath(local_path, dir) == SubSeq(local_path, Len(dir) + 1, Len(local_path))

\* Variant: only the blobs at the root of the bucket are listed.
ExistingFilesRootOnly(bucket) == {b \in bucket : Len(b) = 1}

\* set(blob.name for blob in self.output_bucket.list_blobs())
ExistingFiles(bucket) == bucket

\* files_to_upload: the blob paths of the samples that are not in the bucket.
FilesToUpload(bucket) ==
    {RelPath(filepath[i], LocalDir) : i \in samples} \ ExistingFiles(bucket)

\* list_blobs(delimiter='/'): the blobs at the root of the bucket; those under
\* a directory are reported as prefixes, not as blobs.
ListRootBlobs(bucket) == {b \in bucket : b.dir = 0}

\* _get_next_annotation_dir: one more than the largest numbered directory
\* among the listed blobs.
NextAnnotationDir(bucket) ==
    LET existing_nums == {b.dir : b \in ListRootBlobs(bucket)} \ {0}
    IN  IF existing_nums = {} THEN 1
        ELSE (CHOOSE n \in existing_nums : \A m \in existing_nums : m <= n) + 1

upload_images ==
    /\ LET delta == FilesToUpload(output_bucket)
           next_dir == NextAnnotationDir(annotation_set_bucket)
       IN  /\ files_to_upload' = delta
           /\ output_bucket' = output_bucket \cup delta
           /\ annotation_set_bucket' =
                 annotation_set_bucket
                   \cup {[dir |-> next_dir, path |-> b] : b \in delta}
           /\ annotation_uploads' = delta
    /\ last_call' = "upload_images"
    /\ UNCHANGED <<datasetVars, selectVars, classVars, stepVars, raceVars,
                   selectorVars, extractVars>>

\* add_samples_to_dataset finds one more file under the local directory.
add_sample(i) ==
    /\ i \notin samples
    /\ samples' = samples \cup {i}
    /\ last_call' = "add_samples_to_dataset"
    /\ UNCHANGED <<filepath, approx_dup_group_id, saved_views, brain_computed,
                   neighbors_map, approx_dup_view, remove_sample_ids, result,
                   computed, detected>>
    /\ UNCHANGED <<output_bucket, annotation_set_bucket, files_to_upload,
                   annotation_uploads>>
    /\ UNCHANGED <<selectVars, classVars, stepVars, raceVars,
                   selectorVars, extractVars>>

\* A dataset of some of the files under the local directory, and an output
\* bucket that earlier runs left some of the files in.
InitUpload ==
    /\ samples \in SUBSET Items
    /\ filepath = [i \in Items |-> LocalPath(i)]
    /\ approx_dup_group_id = [i \in Items |-> NoGroup]
    /\ saved_views = [n \in ViewNames |-> NotSaved]
    /\ brain_computed = FALSE
    /\ neighbors_map = <<>>
    /\ approx_dup_view = {}
    /\ remove_sample_ids = {}
    /\ result = Result("none", "ok", 0, 0)
    /\ computed = FALSE
    /\ detected = FALSE
    /\ output_bucket \in SUBSET {PoolPath(i) : i \in Items}
    /\ annotation_set_bucket = {}
    /\ files_to_upload = {}
    /\ annotation_uploads = {}
    /\ last_call = "none"
    /\ SelectIdle
    /\ ClassIdle
    /\ StepsIdle
    /\ RaceIdle
    /\ SelectorIdle
    /\ ExtractIdle

NextUpload ==
    \/ upload_images
    \/ \E i \in Items : add_sample(i)

SpecUpload == InitUpload /\ [][NextUpload]_vars

\* ------------------------------------------- the calls, statement by statement
\* One caller runs the functions a statement at a time.  A call to the
\* dataset or to the database may raise instead of returning; no function of
\* the repository catches an exception, so the error ends the function at
\* that statement and then the pipeline (main has no handler): no call
\* follows a storage failure.
notStepVars ==
    <<selectVars, classVars, uploadVars, raceVars, selectorVars, extractVars>>

\* The caller is between calls and the pipeline has not been ended.
Callable == pc = "idle" /\ ~failed

\* Variant: overwrite is not asked for, a view already saved is kept.
SaveViewNoOverwrite(sv, name, ids) ==
    IF sv[name].saved THEN sv
    ELSE [sv EXCEPT ![name] = [saved |-> TRUE, ids |-> ids]]

\* dataset.save_view(name, view, overwrite=True)
SaveView(sv, name, ids) == [sv EXCEPT ![name] = [saved |-> TRUE, ids |-> ids]]

\* Variant: only "approx_dup_view" can be deleted.
DeleteSavedViewFlaggedOnly(sv, name) ==
    IF name = "approx_dup_view" THEN [sv EXCEPT ![name] = NotSaved] ELSE sv

\* dataset.delete_saved_view(name)
DeleteSavedView(sv, name) == [sv EXCEPT ![name] = NotSaved]

\* The group ids on the samples when the loop over the neighbor map has
\* stamped the entries before the k-th.
RECURSIVE StampUpTo(_, _, _, _)
StampUpTo(gid, map, view, k) ==
    IF k <= 1 THEN gid
    ELSE StampOne(StampUpTo(gid, map, view, k - 1), map[k - 1], view)

\* The response of find_approximate_duplicates
Response(view, map) ==
    Result("find_approximate_duplicates", "ok", Cardinality(view),
           NumDups(Cardinality(view), Len(map)))

\* find_approximate_duplicates up to approx_dup_view: without an index
\* load_brain_results raises; with one the neighbor map is computed and the
\* flagged view saved and loaded.
find_begin(map) ==
    /\ Callable
    /\ saved_by_call' = IF brain_computed THEN {"approx_dup_view"} ELSE {}
    /\ old_views' = list_saved_views
    /\ remove_sample_ids' = {}
    /\ IF ~brain_computed
       THEN /\ map = <<>>
            /\ result' = Result("find_approximate_duplicates",
                                "ConfigurationError", 0, 0)
            /\ approx_dup_view' = {}
            /\ UNCHANGED <<neighbors_map, saved_views, pc, running>>
       ELSE /\ neighbors_map' = map
            /\ saved_views' = SaveView(saved_views, "approx_dup_view",
                                       FlaggedViewStage(map))
            /\ approx_dup_view' = SelectView(FlaggedViewStage(map))
            /\ pc' = "gen_approx_duplicate_groups_view"
            /\ running' = "find_approximate_duplicates"
            /\ UNCHANGED result
    /\ UNCHANGED <<samples, filepath, approx_dup_group_id, brain_computed,
                   computed, detected>>
    /\ UNCHANGED <<next_entry, group_ids, failed>>
    /\ UNCHANGED notStepVars

\* find_duplicates or the first save_view raises: nothing was written.
find_raises_before_save ==
    /\ Callable
    /\ brain_computed
    /\ saved_by_call' = {}
    /\ old_views' = list_saved_views
    /\ approx_dup_view' = {}
    /\ remove_sample_ids' = {}
    /\ result' = Result("find_approximate_duplicates", "StorageError", 0, 0)
    /\ failed' = TRUE
    /\ UNCHANGED <<samples, filepath, approx_dup_group_id, saved_views,
                   brain_computed, neighbors_map, computed, detected>>
    /\ UNCHANGED <<pc, running, next_entry, group_ids>>
    /\ UNCHANGED notStepVars

\* gen_approx_duplicate_groups_view, then the response: the groups are
\* stamped, the grouped view is saved.
find_gen_approx_duplicate_groups_view ==
    /\ pc = "gen_approx_duplicate_groups_view"
    /\ approx_dup_group_id' =
         StampGroups(approx_dup_group_id, neighbors_map,
                     SelectView(DuplicatesViewIds(neighbors_map)))
    /\ saved_views' = SaveView(saved_views, "approx_dup_groups_view",
                               SelectView(DuplicatesViewIds(neighbors_map)))
    /\ saved_by_call' = saved_by_call \cup {"approx_dup_groups_view"}
    /\ result' = Response(approx_dup_view, neighbors_map)
    /\ computed' = TRUE
    /\ detected' = TRUE
    /\ pc' = "idle"
    /\ running' = "none"
    /\ UNCHANGED <<samples, filepath, brain_computed, neighbors_map,
                   approx_dup_view, remove_sample_ids>>
    /\ UNCHANGED <<next_entry, group_ids, old_views, failed>>
    /\ UNCHANGED notStepVars

\* A policy up to its loop: the guard, the load of the flagged view, and for
\* Keep-One the distinct group ids.
policy_begin(op) ==
    /\ Callable
    /\ IF NotComputed
       THEN /\ result' = Result(op, "NotComputedError", 0, 0)
            /\ approx_dup_view' = {}
            /\ remove_sample_ids' = {}
            /\ UNCHANGED <<pc, running, group_ids>>
       ELSE LET view == load_saved_view("approx_dup_view")
                gids == IF op = "deduplicate_approximate_duplicates"
                        THEN DistinctGroupIds(view, approx_dup_group_id)
                        ELSE {}
            IN  /\ approx_dup_view' = view
                /\ remove_sample_ids' =
                      IF op = "remove_all_approximate_duplicates"
                      THEN RemoveAllIds(view) ELSE {}
                /\ group_ids' = gids
                /\ pc' = IF gids = {} THEN "delete_samples" ELSE "accumulate"
                /\ running' = op
                /\ UNCHANGED result
    /\ UNCHANGED <<samples, filepath, approx_dup_group_id, saved_views,
                   brain_computed, neighbors_map, computed, detected>>
    /\ UNCHANGED <<next_entry, saved_by_call, old_views, failed>>
    /\ UNCHANGED notStepVars

\* The ids one turn of the loop over group_ids adds to remove_sample_ids.
GroupRemovals(view, gid, g) ==
    SeqToSet(AllButFirst(SortByFilepath(MatchGroup(view, gid, g))))

\* Variant: each group's ids are deleted inside the loop.
dedup_accumulate_and_delete ==
    /\ pc = "accumulate"
    /\ LET g == CHOOSE x \in group_ids : \A y \in group_ids : x <= y
           ids == GroupRemovals(approx_dup_view, approx_dup_group_id, g)
       IN  /\ remove_sample_ids' = remove_sample_ids \cup ids
           /\ samples' = samples \ ids
           /\ group_ids' = group_ids \ {g}
           /\ pc' = IF group_ids = {g} THEN "delete_samples" ELSE "accumulate"
    /\ UNCHANGED <<filepath, approx_dup_group_id, saved_views,
                   brain_computed, neighbors_map, approx_dup_view, result,
                   computed, detected>>
    /\ UNCHANGED <<running, next_entry, saved_by_call, old_views, failed>>
    /\ UNCHANGED notStepVars

\* One turn of the loop over group_ids (distinct() lists them in order).
dedup_accumulate ==
    /\ pc = "accumulate"
    /\ LET g == CHOOSE x \in group_ids : \A y \in group_ids : x <= y
       IN  /\ remove_sample_ids' =
                 remove_sample_ids
                   \cup GroupRemovals(approx_dup_view, approx_dup_group_id, g)
           /\ group_ids' = group_ids \ {g}
           /\ pc' = IF group_ids = {g} THEN "delete_samples" ELSE "accumulate"
    /\ UNCHANGED <<samples, filepath, approx_dup_group_id, saved_views,
                   brain_computed, neighbors_map, approx_dup_view, result,
                   computed, detected>>
    /\ UNCHANGED <<running, next_entry, saved_by_call, old_views, failed>>
    /\ UNCHANGED notStepVars

\* dataset.delete_samples(...), the batch
policy_delete_samples ==
    /\ pc = "delete_samples"
    /\ samples' = samples \ remove_sample_ids
    /\ approx_dup_group_id' =
         FieldsAfterDelete(approx_dup_group_id, remove_sample_ids)
    /\ pc' = "delete_approx_dup_view"
    /\ UNCHANGED <<filepath, saved_views, brain_computed, neighbors_map,
                   approx_dup_view, remove_sample_ids, result, computed,
                   detected>>
    /\ UNCHANGED <<running, next_entry, group_ids, saved_by_call, old_views,
                   failed>>
    /\ UNCHANGED notStepVars

\* dataset.delete_saved_view("approx_dup_view")
policy_delete_approx_dup_view ==
    /\ pc = "delete_approx_dup_view"
    /\ saved_views' = DeleteSavedView(saved_views, "approx_dup_view")
    /\ pc' = "delete_approx_dup_groups_view"
    /\ UNCHANGED <<samples, filepath, approx_dup_group_id, brain_computed,
                   neighbors_map, approx_dup_view, remove_sample_ids, result,
                   computed, detected>>
    /\ UNCHANGED <<running, next_entry, group_ids, saved_by_call, old_views,
                   failed>>
    /\ UNCHANGED notStepVars

\* dataset.delete_saved_view("approx_dup_groups_view"), which raises when no
\* view of that name is saved, and the return of the policy
policy_delete_approx_dup_groups_view ==
    /\ pc = "delete_approx_dup_groups_view"
    /\ IF "approx_dup_groups_view" \in list_saved_views
       THEN /\ saved_views' =
                  DeleteSavedView(saved_views, "approx_dup_groups_view")
            /\ result' = Result(running, "ok", 0, 0)
            /\ computed' = FALSE
       ELSE /\ result' = Result(running, "NotFoundError", 0, 0)
            /\ UNCHANGED <<saved_views, computed>>
    /\ pc' = "idle"
    /\ running' = "none"
    /\ UNCHANGED <<samples, filepath, approx_dup_group_id, brain_computed,
                   neighbors_map, approx_dup_view, remove_sample_ids, detected>>
    /\ UNCHANGED <<next_entry, group_ids, saved_by_call, old_views, failed>>
    /\ UNCHANGED notStepVars

\* The call the function is at raises (the database is unreachable, a
\* document is rejected) and the function ends there: a sample.save() of the
\* stamping loop after the entries before the k-th were stamped, or the
\* group_by / save_view after the loop (k past the last entry); a
\* delete_samples after it deleted `partial`, a part of the batch; a query of
\* the accumulation loop or a delete_saved_view.
storage_failure(k, partial) ==
    /\ pc # "idle"
    /\ IF pc = "delete_samples"
       THEN partial # remove_sample_ids
       ELSE partial = {}
    /\ IF pc = "gen_approx_duplicate_groups_view"
       THEN k \in 1..(Len(neighbors_map) + 1)
       ELSE k = 1
    /\ samples' = samples \ partial
    /\ approx_dup_group_id' =
         IF pc = "gen_approx_duplicate_groups_view"
         THEN StampUpTo(approx_dup_group_id, neighbors_map,
                        SelectView(DuplicatesViewIds(neighbors_map)), k)
         ELSE FieldsAfterDelete(approx_dup_group_id, partial)
    /\ next_entry' = k
    /\ result' = Result(running, "StorageError", 0, 0)
    /\ failed' = TRUE
    /\ pc' = "idle"
    /\ running' = "none"
    /\ UNCHANGED <<filepath, saved_views, brain_computed, neighbors_map,
                   approx_dup_view, remove_sample_ids, computed, detected>>
    /\ UNCHANGED <<group_ids, saved_by_call, old_views>>
    /\ UNCHANGED notStepVars

InitSteps ==
    /\ DatasetIdle /\ SelectIdle /\ ClassIdle /\ UploadIdle /\ StepsIdle
    /\ RaceIdle
    /\ SelectorIdle
    /\ ExtractIdle

NextSteps ==
    \/ Callable /\ compute_similarity
    \/ Callable /\ \E map \in NeighborMaps(samples) : find_begin(map)
    \/ find_raises_before_save
    \/ find_gen_approx_duplicate_groups_view
    \/ policy_begin("remove_all_approximate_duplicates")
    \/ policy_begin("deduplicate_approximate_duplicates")
    \/ dedup_accumulate
    \/ policy_delete_samples
    \/ policy_delete_approx_dup_view
    \/ policy_delete_approx_dup_groups_view
    \/ \E k \in 1..(NItems + 1) :
         \E partial \in SUBSET remove_sample_ids : storage_failure(k, partial)

SpecSteps == InitSteps /\ [][NextSteps]_vars

\* ------------------------------------------------ two concurrent detections
\* Two callers run find_approximate_duplicates on the same dataset, each with
\* an index object of its own; a step is one call that writes to the
\* database.  Only the statements that write shared state are modelled.
notRaceVars ==
    <<selectVars, classVars, uploadVars, stepVars, selectorVars, extractVars>>

\* The other run is inside its call while run r takes a step.
Inside(r) == \E o \in Runs \ {r} : run_pc[o] \notin {"start", "done"}

\* index.find_duplicates(...) of run r yields its neighbor map.
race_find_duplicates(r, map) ==
    /\ run_pc[r] = "start"
    /\ run_map' = [run_map EXCEPT ![r] = map]
    /\ run_pc' = [run_pc EXCEPT ![r] = "save_approx_dup_view"]
    /\ interleaved' = (interleaved \/ Inside(r))
    /\ UNCHANGED <<datasetVars, run_entry>>
    /\ UNCHANGED notRaceVars

\* dataset.save_view("approx_dup_view", ...) of run r
race_save_approx_dup_view(r) ==
    /\ run_pc[r] = "save_approx_dup_view"
    /\ saved_views' = SaveView(saved_views, "approx_dup_view",
                               FlaggedViewStage(run_map[r]))
    /\ run_pc' = [run_pc EXCEPT ![r] =
                    IF run_map[r] = <<>> THEN "save_approx_dup_groups_view"
                    ELSE "stamp"]
    /\ interleaved' = (interleaved \/ Inside(r))
    /\ UNCHANGED <<samples, filepath, approx_dup_group_id, brain_computed,
                   neighbors_map, approx_dup_view, remove_sample_ids, result,
                   computed, detected>>
    /\ UNCHANGED <<run_map, run_entry>>
    /\ UNCHANGED notRaceVars

\* One turn of run r's loop over its neighbor map.
race_stamp_group(r) ==
    /\ run_pc[r] = "stamp"
    /\ approx_dup_group_id' =
         StampOne(approx_dup_group_id, run_map[r][run_entry[r]],
                  SelectView(DuplicatesViewIds(run_map[r])))
    /\ run_entry' = [run_entry EXCEPT ![r] = @ + 1]
    /\ run_pc' = [run_pc EXCEPT ![r] =
                    IF run_entry[r] = Len(run_map[r])
                    THEN "save_approx_dup_groups_view" ELSE "stamp"]
    /\ interleaved' = (interleaved \/ Inside(r))
    /\ UNCHANGED <<samples, filepath, saved_views, brain_computed,
                   neighbors_map, approx_dup_view, remove_sample_ids, result,
                   computed, detected>>
    /\ UNCHANGED run_map
    /\ UNCHANGED notRaceVars

\* dataset.save_view("approx_dup_groups_view", ...) of run r, its last write
race_save_approx_dup_groups_view(r) ==
    /\ run_pc[r] = "save_approx_dup_groups_view"
    /\ saved_views' = SaveView(saved_views, "approx_dup_groups_view",
                               SelectView(DuplicatesViewIds(run_map[r])))
    /\ run_pc' = [run_pc EXCEPT ![r] = "done"]
    /\ interleaved' = (interleaved \/ Inside(r))
    /\ UNCHANGED <<samples, filepath, approx_dup_group_id, brain_computed,
                   neighbors_map, approx_dup_view, remove_sample_ids, result,
                   computed, detected>>
    /\ UNCHANGED <<run_map, run_entry>>
    /\ UNCHANGED notRaceVars

\* A dataset with a similarity index, no detection run made yet.
InitRace ==
    /\ samples = Items
    /\ filepath = [i \in Items |-> PoolPath(i)]
    /\ approx_dup_group_id = [i \in Items |-> NoGroup]
    /\ saved_views = [n \in ViewNames |-> NotSaved]
    /\ brain_computed = TRUE
    /\ neighbors_map = <<>>
    /\ approx_dup_view = {}
    /\ remove_sample_ids = {}
    /\ result = Result("compute_similarity", "ok", 0, 0)
    /\ computed = FALSE
    /\ detected = FALSE
    /\ SelectIdle /\ ClassIdle /\ UploadIdle /\ StepsIdle /\ RaceIdle
    /\ SelectorIdle /\ ExtractIdle

NextRace ==
    \/ \E r \in Runs :
         run_pc[r] = "start"
           /\ \E map \in NeighborMaps(samples) : race_find_duplicates(r, map)
    \/ \E r \in Runs : race_save_approx_dup_view(r)
    \/ \E r \in Runs : race_stamp_group(r)
    \/ \E r \in Runs : race_save_approx_dup_groups_view(r)

SpecRace == InitRace /\ [][NextRace]_vars

\* ------------------------------------------------- threshold or fraction
notSelectorVars ==
    <<datasetVars, selectVars, classVars, uploadVars, stepVars, raceVars,
      extractVars>>

\* Variant: `if threshold:`, a threshold of zero counts as not supplied.
FindDuplicatesKwargsIfTruthy(thr, frac) ==
    IF thr # None /\ thr # <<0>> THEN [k \in {"thresh"} |-> thr]
    ELSE [k \in {"fraction"} |-> frac]

\* The keyword arguments of index.find_duplicates: thresh=threshold when
\* threshold is not None, fraction=fraction otherwise.
FindDuplicatesKwargs(thr, frac) ==
    IF thr # None THEN [k \in {"thresh"} |-> thr]
    ELSE [k \in {"fraction"} |-> frac]

\* find_approximate_duplicates(sample_collection, brain_key, threshold,
\* fraction) on a dataset with an index, up to index.find_duplicates.
find_duplicates_selected(thr, frac) ==
    /\ brain_computed
    /\ threshold' = thr
    /\ fraction' = frac
    /\ find_duplicates_kwargs' = FindDuplicatesKwargs(thr, frac)
    /\ UNCHANGED notSelectorVars

\* A dataset with a similarity index.
InitSelector ==
    /\ samples = Items
    /\ filepath = [i \in Items |-> PoolPath(i)]
    /\ approx_dup_group_id = [i \in Items |-> NoGroup]
    /\ saved_views = [n \in ViewNames |-> NotSaved]
    /\ brain_computed = TRUE
    /\ neighbors_map = <<>>
    /\ approx_dup_view = {}
    /\ remove_sample_ids = {}
    /\ result = Result("compute_similarity", "ok", 0, 0)
    /\ computed = FALSE
    /\ detected = FALSE
    /\ SelectIdle /\ ClassIdle /\ UploadIdle /\ StepsIdle /\ RaceIdle
    /\ SelectorIdle
    /\ ExtractIdle

NextSelector ==
    \E thr \in Selectors : \E frac \in Selectors :
        find_duplicates_selected(thr, frac)

SpecSelector == InitSelector /\ [][NextSelector]_vars

\* ------------------------------------------------------- video extractor
notExtractVars ==
    <<datasetVars, selectVars, classVars, uploadVars, stepVars, raceVars,
      selectorVars>>

\* Python's round(a / b) for integers a >= 0 and b > 0: to the nearest
\* integer, a half to the even one.
RoundHalfEven(a, b) ==
    LET q == a \div b
        r == a % b
    IN  IF 2 * r < b THEN q
        ELSE IF 2 * r > b THEN q + 1
        ELSE IF q % 2 = 0 THEN q ELSE q + 1

\* An exception of the body of extract_frames, and its normal end.
Raise(e) == [raises |-> TRUE, error |-> e, image_count |-> 0]
Return(n) == [raises |-> FALSE, error |-> "", image_count |-> n]

\* The loop `while success:` from frame frame_count on, image_count images
\* written so far: every interval-th frame is written and uploaded or moved.
RECURSIVE frame_loop(_, _, _, _)
frame_loop(input, interval, frame_count, image_count) ==
    IF frame_count >= input.nframes THEN Return(image_count)
    ELSE IF interval = 0 THEN Raise("integer modulo by zero")
    ELSE IF frame_count % interval = 0
         THEN IF input.fail_at = image_count + 1
              THEN Raise("upload failed")
              ELSE frame_loop(input, interval, frame_count + 1,
                              image_count + 1)
         ELSE frame_loop(input, interval, frame_count + 1, image_count)

\* The body of extract_frames inside its try.
extract_frames_body(input, rate) ==
    IF input.kind = "download_error" THEN Raise("download failed")
    ELSE IF input.kind = "cannot_open"
         THEN Raise("Failed to open video file")
    ELSE IF rate = 0 THEN Raise("float division by zero")
    ELSE frame_loop(input, RoundHalfEven(input.fps, rate), 0, 0)

\* Variant: `except ValueError`, any other exception leaves the function.
extract_frames_catching_ValueError(input, rate) ==
    LET body == extract_frames_body(input, rate)
    IN  IF ~body.raises
        THEN [raised |-> FALSE, ok |-> TRUE,
              message |-> Successfully(body.image_count)]
        ELSE IF body.error = "Failed to open video file"
        THEN [raised |-> FALSE, ok |-> FALSE,
              message |-> ErrorProcessing(body.error)]
        ELSE [raised |-> TRUE, ok |-> FALSE,
              message |-> ErrorProcessing(body.error)]

\* extract_frames: (True, message) at the end of the body, (False, message)
\* from `except Exception`.
extract_frames(input, rate) ==
    LET body == extract_frames_body(input, rate)
    IN  IF ~body.raises
        THEN [raised |-> FALSE, ok |-> TRUE,
              message |-> Successfully(body.image_count)]
        ELSE [raised |-> FALSE, ok |-> FALSE,
              message |-> ErrorProcessing(body.error)]

\* starmap cuts the list of videos into tasks of this many videos each.
ChunkSize ==
    LET chunksize == NVideos \div (NProcesses * 4)
        extra == NVideos % (NProcesses * 4)
    IN  IF extra # 0 THEN chunksize + 1 ELSE chunksize

ChunkOf(v) == (v - 1) \div ChunkSize

Chunks == {ChunkOf(v) : v \in Videos}

SameChunk(v) == {u \in Videos : ChunkOf(u) = ChunkOf(v)}

\* A task has started when its first video has been worked on; it is over
\* when all its videos have, or when one of them raised: a worker runs the
\* videos of a task in order and gives the task up at the first exception.
Started(c) == \E v \in Videos : ChunkOf(v) = c /\ processed[v] # "queued"

Finished(c) ==
    \/ \A v \in Videos : ChunkOf(v) = c => processed[v] # "queued"
    \/ \E v \in Videos : ChunkOf(v) = c /\ processed[v] = "raised"

InProgress == {c \in Chunks : Started(c) /\ ~Finished(c)}

\* The pool can work on video v next: v is the next video of a task in
\* progress, or the first video of the next task while a worker is free.
CanProcess(v) ==
    /\ processed[v] = "queued"
    /\ \A u \in SameChunk(v) : u < v => processed[u] \in {"info", "error"}
    /\ (\A u \in SameChunk(v) : u >= v) =>
          /\ \A c \in Chunks : c < ChunkOf(v) => Started(c)
          /\ Cardinality(InProgress) < NProcesses

\* process_video(video_file, ...) in a worker of the pool: it logs the
\* result of extract_frames at level info or error; an exception of
\* extract_frames passes through it.
process_video(v, input) ==
    LET r == extract_frames(input, frame_rate)
    IN  /\ CanProcess(v)
        /\ call' = [video |-> v, input |-> input, raised |-> r.raised,
                    ok |-> r.ok, message |-> r.message]
        /\ processed' = [processed EXCEPT ![v] =
               IF r.raised THEN "raised"
               ELSE IF r.ok THEN "info" ELSE "error"]
        /\ UNCHANGED frame_rate
        /\ UNCHANGED notExtractVars

\* main has listed the video files and read FRAME_RATE.
InitExtract ==
    /\ samples = Items
    /\ filepath = [i \in Items |-> PoolPath(i)]
    /\ approx_dup_group_id = [i \in Items |-> NoGroup]
    /\ saved_views = [n \in ViewNames |-> NotSaved]
    /\ brain_computed = FALSE
    /\ neighbors_map = <<>>
    /\ approx_dup_view = {}
    /\ remove_sample_ids = {}
    /\ result = Result("compute_similarity", "ok", 0, 0)
    /\ computed = FALSE
    /\ detected = FALSE
    /\ SelectIdle /\ ClassIdle /\ UploadIdle /\ StepsIdle /\ RaceIdle
    /\ SelectorIdle
    /\ frame_rate \in 0..MaxFrameRate
    /\ processed = [v \in Videos |-> "queued"]
    /\ call = NoCall

NextExtract ==
    \E v \in Videos : \E input \in VideoInputs : process_video(v, input)

SpecExtract == InitExtract /\ [][NextExtract]_vars

\* ================================================================== claims
DedupOp == "deduplicate_approximate_duplicates"
RemoveAllOp == "remove_all_approximate_duplicates"
FindOp == "find_approximate_duplicates"
GetOp == "get_approximate_duplicate_groups"

\* A step in which the named policy passed its guard and returned.
PolicyStep(op) ==
    /\ ~NotComputed
    /\ result'.op = op
    /\ result'.status = "ok"

\* The state a call has just returned to, successfully.
Returned(op) == result.op = op /\ result.status = "ok"

\* Group of the k-th representative of the latest detection run.
GroupOf(k) == GroupIds(neighbors_map[k])

Reps == 1..Len(neighbors_map)

\* Items whose path is smallest among M.
SmallestPath(M) ==
    {i \in M : \A j \in M : i = j \/ LexLess(filepath[i], filepath[j])}

\* C1: Keep-One-Per-Group retains, for every group id present among the
\* flagged items, the bearer with the lexicographically smallest file path,
\* and deletes every other bearer of that group id.
C1_KeepSmallestPath ==
    [][PolicyStep(DedupOp) =>
        LET view == load_saved_view("approx_dup_view")
        IN  \A g \in DistinctGroupIds(view, approx_dup_group_id) :
              LET M == MatchGroup(view, approx_dup_group_id, g)
              IN  /\ Cardinality(SmallestPath(M)) = 1
                  /\ SmallestPath(M) \subseteq samples'
                  /\ (M \ SmallestPath(M)) \cap samples' = {}]_vars

\* C1 witness: Keep-One-Per-Group deleted two items of the view and kept one
\* whose id is not the smallest of the view.
C1_Witness ==
    /\ Returned(DedupOp)
    /\ Cardinality(remove_sample_ids) >= 2
    /\ \E i \in approx_dup_view \cap samples :
          \E j \in remove_sample_ids : j < i

\* C2 as stated: after Keep-One-Per-Group, exactly one member of every group
\* built by the detection run remains, for every neighbor map.
C2_ExactlyOnePerGroup ==
    Returned(DedupOp) =>
        \A k \in Reps : Cardinality(GroupOf(k) \cap samples) = 1

\* A group that shares no item with another group of the map.
DisjointGroup(k) == \A j \in Reps : j # k => GroupOf(j) \cap GroupOf(k) = {}

\* C2 amended: Keep-One-Per-Group leaves exactly one member of every group
\* that shares no item with another group and still had a member in the
\* collection when the policy started; its other members are deleted.
C2_ExactlyOnePerDisjointGroup ==
    [][PolicyStep(DedupOp) =>
        \A k \in Reps :
            (DisjointGroup(k) /\ GroupOf(k) \cap samples # {})
              => Cardinality(GroupOf(k) \cap samples') = 1]_vars

\* C2 witness: Keep-One-Per-Group ran on a group that shares no item with
\* another, deleted two of its members and left one.
C2_Witness ==
    /\ Returned(DedupOp)
    /\ \E k \in Reps :
          /\ DisjointGroup(k)
          /\ Cardinality(GroupOf(k) \cap remove_sample_ids) = 2
          /\ Cardinality(GroupOf(k) \cap samples) = 1

C4_RemoveAllEmptiesGroups ==
    [][PolicyStep(RemoveAllOp) =>
        /\ load_saved_view("approx_dup_view") \cap samples' = {}
        /\ \A k \in Reps : GroupOf(k) \cap samples' = {}
        /\ list_saved_views' = {}]_vars

\* C4 witness: Remove-All deleted a whole group, representative included.
C4_Witness ==
    /\ Returned(RemoveAllOp)
    /\ \E k \in Reps : /\ Cardinality(GroupOf(k)) >= 2
                       /\ GroupOf(k) \subseteq remove_sample_ids

\* C5: the summary a detection run returns satisfies
\* num_dups = (size of the Flagged-Duplicates View) - (number of
\* representatives of the neighbor map).
C5_NumDups ==
    Returned(FindOp) =>
        /\ result.num_images_with_approx_dups =
              Cardinality(load_saved_view("approx_dup_view"))
        /\ result.num_dups =
              Cardinality(load_saved_view("approx_dup_view"))
                - Cardinality({neighbors_map[k].rep : k \in Reps})

\* C5 witness: a detection run with two representatives reported one
\* duplicate.
C5_Witness ==
    /\ Returned(FindOp)
    /\ Len(neighbors_map) = 2
    /\ result.num_dups = 1

\* C6: after a detection run every item of every group, representative or
\* neighbor, is a member of the saved Flagged-Duplicates View.
C6_GroupsInFlaggedView ==
    Returned(FindOp) =>
        /\ "approx_dup_view" \in list_saved_views
        /\ \A k \in Reps : GroupOf(k) \subseteq load_saved_view("approx_dup_view")

\* C6 witness: a detection run whose map has a representative with neighbors.
C6_Witness ==
    /\ Returned(FindOp)
    /\ \E k \in Reps : neighbors_map[k].dups # {}

\* What each policy would delete, called in the current state.
RemoveAllWouldDelete == RemoveAllIds(load_saved_view("approx_dup_view"))
DedupWouldDelete ==
    DeduplicateIds(load_saved_view("approx_dup_view"), approx_dup_group_id)

\* Every group loses at least as many items under Remove-All.
GroupsLoseAtLeastAsMany ==
    \A k \in Reps : Cardinality(GroupOf(k) \cap RemoveAllWouldDelete)
                      >= Cardinality(GroupOf(k) \cap DedupWouldDelete)

\* C7 as stated: for one detection run, Remove-All deletes a strict superset
\* of what Keep-One-Per-Group deletes.
C7_StrictSuperset ==
    ~NotComputed =>
        /\ DedupWouldDelete \subseteq RemoveAllWouldDelete
        /\ DedupWouldDelete # RemoveAllWouldDelete
        /\ GroupsLoseAtLeastAsMany

\* C7 amended: Remove-All deletes a superset of what Keep-One-Per-Group
\* deletes, strict whenever the Flagged-Duplicates View holds an item, and
\* every group loses at least as many items under Remove-All.
C7_SupersetStrictWhenFlagged ==
    ~NotComputed =>
        /\ DedupWouldDelete \subseteq RemoveAllWouldDelete
        /\ (load_saved_view("approx_dup_view") # {}
              => DedupWouldDelete # RemoveAllWouldDelete)
        /\ GroupsLoseAtLeastAsMany

\* C7 witness: both policies would delete something, Remove-All more.
C7_Witness ==
    /\ ~NotComputed
    /\ DedupWouldDelete # {}
    /\ DedupWouldDelete # RemoveAllWouldDelete

\* Representatives whose group holds item i.
GroupsHolding(i) == {k \in Reps : i \in GroupOf(k)}

\* C8: after stamping, each flagged item's group id is the id of a
\* representative whose group holds it: of the one processed last in the
\* map's iteration order when several do.
C8_LastRepresentativeWins ==
    Returned(FindOp) =>
        \A i \in load_saved_view("approx_dup_view") :
            /\ GroupsHolding(i) # {}
            /\ \E k \in GroupsHolding(i) :
                  /\ \A j \in GroupsHolding(i) : j <= k
                  /\ approx_dup_group_id[i] = neighbors_map[k].rep

\* C8 witness: an item held by the groups of two representatives.
C8_Witness ==
    /\ Returned(FindOp)
    /\ \E i \in load_saved_view("approx_dup_view") :
          Cardinality(GroupsHolding(i)) = 2

\* C9: a group id borne by exactly one item of the flagged view adds nothing
\* to the deletion batch of Keep-One-Per-Group: that item is retained.
C9_SingletonRetained ==
    [][PolicyStep(DedupOp) =>
        LET view == load_saved_view("approx_dup_view")
        IN  \A g \in DistinctGroupIds(view, approx_dup_group_id) :
              LET M == MatchGroup(view, approx_dup_group_id, g)
              IN  Cardinality(M) = 1
                    => M \subseteq samples' /\ M \cap remove_sample_ids' = {}]_vars

\* C9 witness: Keep-One-Per-Group kept the only surviving member of a group
\* whose other members had been deleted after detection.
C9_Witness ==
    /\ Returned(DedupOp)
    /\ \E k \in Reps :
          /\ Cardinality(GroupOf(k)) >= 2
          /\ DisjointGroup(k)
          /\ Cardinality(GroupOf(k) \cap approx_dup_view) = 1
          /\ GroupOf(k) \cap approx_dup_view \subseteq samples

C11_SurvivorOfMembersAndPaths ==
    [][\A c \in Collections :
         kept_id'[c] # NoGroup =>
           /\ kept_id'[c] \in SmallestPath(SeqToSet(group_view'[c]))
           /\ \A d \in Collections :
                 kept_id'[d] # NoGroup => kept_id'[d] = kept_id'[c]
           /\ kept_id[c] # NoGroup => kept_id'[c] = kept_id[c]]_vars

\* Both collections ran the step on a group they store in different orders,
\* and the first does not store the kept member first.
C11_Witness ==
    /\ \A c \in Collections : kept_id[c] # NoGroup
    /\ group_view["first"] # group_view["second"]
    /\ Head(group_view["first"]) # kept_id["first"]
    /\ Head(group_view["second"]) = kept_id["second"]

\* C13: a detection run on a dataset that holds no similarity index under the
\* brain key ends with ConfigurationError, and the call saves no view, stamps
\* no group id and deletes no sample.
C13_NoIndexNoEffect ==
    [][(~brain_computed /\ result'.op = FindOp /\ result' # result) =>
         /\ result'.status = "ConfigurationError"
         /\ saved_views' = saved_views
         /\ list_saved_views = {}
         /\ approx_dup_group_id' = approx_dup_group_id
         /\ samples' = samples]_vars

\* A detection run failed for want of an index.
C13_Witness ==
    /\ ~brain_computed
    /\ result.op = FindOp
    /\ result.status = "ConfigurationError"
    /\ list_saved_views = {}
    /\ \A i \in Items : approx_dup_group_id[i] = NoGroup

\* C19: when Keep-One-Per-Group runs on the state a detection run has just
\* returned to, the number of samples it deletes is the num_dups that run
\* returned.
C19_DeletedEqualsNumDups ==
    [][(Returned(FindOp) /\ PolicyStep(DedupOp)) =>
         /\ Cardinality(samples \ samples') = result.num_dups
         /\ Cardinality(remove_sample_ids') = result.num_dups]_vars

\* Keep-One-Per-Group deleted two neighbors that the latest run had listed
\* under two representatives, one of them under both, and nothing else was
\* ever deleted.
C19_Witness ==
    /\ Returned(DedupOp)
    /\ Len(neighbors_map) = 2
    /\ GroupOf(1) \cap GroupOf(2) # {}
    /\ Cardinality(remove_sample_ids) =
         Cardinality(DuplicatesViewIds(neighbors_map)) - Len(neighbors_map)
    /\ remove_sample_ids # {}
    /\ samples \cup remove_sample_ids = Items

\* C20: a policy deletes only samples of the flagged view saved by the latest
\* detection run; a detection run deletes no sample and changes the group id
\* of no sample outside the flagged view it saves.
C20_OnlyFlaggedTouched ==
    [][/\ result'.op \in {DedupOp, RemoveAllOp} =>
            samples \ samples' \subseteq saved_views["approx_dup_view"].ids
       /\ result'.op = FindOp =>
            /\ samples' = samples
            /\ \A i \in Items :
                  approx_dup_group_id'[i] # approx_dup_group_id[i] =>
                    i \in saved_views'["approx_dup_view"].ids]_vars

\* A detection run left a sample unflagged and unstamped, and stamped the
\* flagged ones; the policy that followed deleted flagged samples only.
C20_Witness ==
    /\ result.op \in {DedupOp, RemoveAllOp}
    /\ result.status = "ok"
    /\ remove_sample_ids # {}
    /\ \E i \in samples :
         /\ i \notin DuplicatesViewIds(neighbors_map)
         /\ approx_dup_group_id[i] = NoGroup
    /\ samples \cup remove_sample_ids = Items

\* The class ids handed out so far.
AssignedIds(cc) == {cc[c] : c \in DOMAIN cc}

\* C15: get_class_id returns for a color it has seen the id it returned for
\* that color before, and for a new color an id no color had; the ids handed
\* out for n distinct colors are exactly 0 .. n-1, one color each.
C15_ClassIds ==
    [][(color_key' # Black /\ classVars' # classVars) =>
         /\ class_id' = class_colors'[color_key']
         /\ \A c \in DOMAIN class_colors : class_colors'[c] = class_colors[c]
         /\ color_key' \notin DOMAIN class_colors =>
               class_id' \notin AssignedIds(class_colors)
         /\ AssignedIds(class_colors') =
               0 .. (Cardinality(DOMAIN class_colors') - 1)
         /\ \A c, d \in DOMAIN class_colors' :
               class_colors'[c] = class_colors'[d] => c = d]_vars

\* Every color has its id, and the latest call asked again for a color that
\* was neither the first nor the last to get one.
C15_Witness ==
    /\ DOMAIN class_colors = Colors \ {Black}
    /\ class_id \notin {0, NColors - 1}
    /\ class_id = class_colors[color_key]
    /\ color_key # class_id + 1

\* Blob paths of the samples of the dataset.
DatasetBlobPaths == {RelPath(filepath[i], LocalDir) : i \in samples}

\* C14: upload_images puts in the output bucket the files of the dataset that
\* are not yet there, and no other, and puts in the annotation set bucket
\* exactly the same files; a call that directly follows another call, the
\* dataset unchanged, uploads nothing to either bucket.
C14_UploadsTheDelta ==
    [][last_call' = "upload_images" =>
         /\ output_bucket' \ output_bucket = DatasetBlobPaths \ output_bucket
         /\ output_bucket \subseteq output_bucket'
         /\ annotation_uploads' = output_bucket' \ output_bucket
         /\ {b.path : b \in annotation_set_bucket' \ annotation_set_bucket}
               = output_bucket' \ output_bucket
         /\ last_call = "upload_images" =>
               /\ output_bucket' = output_bucket
               /\ annotation_set_bucket' = annotation_set_bucket
               /\ annotation_uploads' = {}]_vars

\* A call uploaded files, one of them under a directory, and the call that
\* followed it uploaded nothing.
C14_Witness ==
    /\ last_call = "upload_images"
    /\ files_to_upload = {}
    /\ annotation_uploads = {}
    /\ \E b \in annotation_set_bucket : Len(b.path) > 1
    /\ DatasetBlobPaths \subseteq output_bucket

\* The caller is between calls and the call that returned last is a
\* detection run that began with both views saved by an earlier run.
AfterRedetection ==
    /\ pc = "idle"
    /\ result.op = FindOp
    /\ old_views = ViewNames

\* C12 as stated: after a detection run over the views of an earlier run,
\* ended with an error or not, the run has replaced both views or neither.
C12_PairReplacedTogether ==
    AfterRedetection => saved_by_call \in {{}, ViewNames}

\* C12: a detection run over the views of an earlier run that returns
\* normally has replaced both views, each by one save, and both select the
\* samples the new neighbor map names; a run that ends with an error has not
\* replaced the grouped view, and may have replaced the flagged view alone.
C12_PairReplacedOnReturn ==
    AfterRedetection =>
      /\ list_saved_views = ViewNames
      /\ result.status = "ok" =>
           /\ saved_by_call = ViewNames
           /\ \A n \in ViewNames :
                saved_views[n].ids = DuplicatesViewIds(neighbors_map)
      /\ result.status # "ok" =>
           /\ "approx_dup_groups_view" \notin saved_by_call
           /\ failed

\* A second detection run returned: both views are its own.
C12_Witness ==
    /\ AfterRedetection
    /\ result.status = "ok"
    /\ saved_by_call = ViewNames
    /\ neighbors_map # <<>>

\* C16: in Keep-One-Per-Group samples are deleted by one step only, the
\* batch, taken when the loop has visited every group and remove_sample_ids
\* holds the ids of all groups, and it deletes them all; a saved view is
\* deleted only after the batch, when none of the ids is a sample any more;
\* a batch that fails ends the call with the error, both views still saved
\* as they were, and is not tried again.
C16_AccumulateBatchThenViews ==
    [][running = DedupOp =>
         /\ samples' # samples =>
              /\ pc = "delete_samples"
              /\ group_ids = {}
              /\ remove_sample_ids =
                   DeduplicateIds(approx_dup_view, approx_dup_group_id)
              /\ list_saved_views = ViewNames
              /\ saved_views' = saved_views
         /\ (pc = "delete_samples" /\ pc' # "idle") =>
              samples' = samples \ remove_sample_ids
         /\ saved_views' # saved_views =>
              /\ pc \in {"delete_approx_dup_view",
                         "delete_approx_dup_groups_view"}
              /\ samples \cap remove_sample_ids = {}
              /\ samples' = samples
         /\ (pc = "delete_samples" /\ pc' = "idle") =>
              /\ result' = Result(DedupOp, "StorageError", 0, 0)
              /\ saved_views' = saved_views
              /\ list_saved_views' = ViewNames
              /\ failed']_vars

\* The batch of Keep-One-Per-Group failed after deleting one of its two ids:
\* the call ended with the error, both views saved.
C16_Witness ==
    /\ pc = "idle"
    /\ result = Result(DedupOp, "StorageError", 0, 0)
    /\ list_saved_views = ViewNames
    /\ remove_sample_ids \cap samples # {}
    /\ remove_sample_ids \ samples # {}

\* The two views are saved together or not at all.
ViewsExistTogether ==
    "approx_dup_view" \in list_saved_views
      <=> "approx_dup_groups_view" \in list_saved_views

\* C18 as stated: between calls, after a detection run that ended with an
\* error included, approx_dup_view is saved exactly when
\* approx_dup_groups_view is.
C18_ViewsExistTogetherAlways == pc = "idle" => ViewsExistTogether

\* C18: between calls none of which was ended by a storage failure,
\* approx_dup_view is saved exactly when approx_dup_groups_view is; after a
\* detection run that such a failure ended the grouped view is not saved
\* without the flagged one, after a policy that it ended the flagged view is
\* not saved without the grouped one.
C18_ViewsExistTogetherUnlessFailed ==
    pc = "idle" =>
      /\ ~failed => ViewsExistTogether
      /\ (failed /\ result.op = FindOp) =>
           ("approx_dup_groups_view" \in list_saved_views
              => "approx_dup_view" \in list_saved_views)
      /\ (failed /\ result.op \in {DedupOp, RemoveAllOp}) =>
           ("approx_dup_view" \in list_saved_views
              => "approx_dup_groups_view" \in list_saved_views)

\* A policy completed after a detection run: both views are gone together.
C18_Witness ==
    /\ pc = "idle"
    /\ ~failed
    /\ detected
    /\ result.op \in {DedupOp, RemoveAllOp}
    /\ result.status = "ok"
    /\ list_saved_views = {}

\* The saved views and group ids the dataset holds when run `first` has
\* returned before run `second` began.
SequentialOutcome(first, second) ==
    [views |-> [n \in ViewNames |->
                  [saved |-> TRUE, ids |-> DuplicatesViewIds(run_map[second])]],
     group_ids |->
        StampGroups(StampGroups([i \in Items |-> NoGroup], run_map[first],
                                DuplicatesViewIds(run_map[first])),
                    run_map[second], DuplicatesViewIds(run_map[second]))]

SequentialOutcomes ==
    {SequentialOutcome(a, b) : <<a, b>> \in {<<"A", "B">>, <<"B", "A">>}}

Outcome == [views |-> saved_views, group_ids |-> approx_dup_group_id]

BothDone == \A r \in Runs : run_pc[r] = "done"

\* C17: two detection runs on one dataset race: when neither run took a step
\* inside the other the final views and group ids are those of the runs made
\* one after the other, and every final state that is not (the flagged view of
\* one run with the group ids of the other) comes from interleaved steps; such
\* a state is reached.
C17_SequentialUnlessInterleaved ==
    (BothDone /\ ~interleaved) => Outcome \in SequentialOutcomes

\* Both runs returned; the views are those of run B, a sample carries the
\* group id run A gave it, and no order of the two runs gives this state.
C17_Witness ==
    /\ BothDone
    /\ Outcome \notin SequentialOutcomes
    /\ \A n \in ViewNames :
         saved_views[n].ids = DuplicatesViewIds(run_map["B"])
    /\ approx_dup_group_id =
         StampGroups([i \in Items |-> NoGroup], run_map["A"],
                     DuplicatesViewIds(run_map["A"]))
    /\ approx_dup_group_id # SequentialOutcome("A", "B").group_ids

\* C21: a call with a threshold that is not None, zero included, asks the
\* index for duplicates by that threshold and passes no fraction, whatever
\* fraction was supplied; a call whose threshold is None passes the fraction
\* and no threshold, also when the fraction is None.
C21_ThresholdBeforeFraction ==
    [][selectorVars' # selectorVars =>
         /\ threshold' # None =>
              /\ DOMAIN find_duplicates_kwargs' = {"thresh"}
              /\ find_duplicates_kwargs'["thresh"] = threshold'
         /\ threshold' = None =>
              /\ DOMAIN find_duplicates_kwargs' = {"fraction"}
              /\ find_duplicates_kwargs'["fraction"] = fraction']_vars

\* A call supplied a threshold of zero and a fraction: the index got the
\* threshold alone.
C21_Witness ==
    /\ threshold = <<0>>
    /\ fraction \notin {None, <<0>>}
    /\ DOMAIN find_duplicates_kwargs = {"thresh"}

\* The latest call worked on a video that opened, and the frame interval
\* int(round(fps / frame_rate)) is zero.
ZeroIntervalCall ==
    /\ call.video # 0
    /\ call.input.kind = "video"
    /\ frame_rate >= 1
    /\ 2 * call.input.fps <= frame_rate

\* The images a video of nframes frames yields at a non-zero interval.
ImagesSelected(nframes, interval) ==
    IF nframes = 0 THEN 0 ELSE ((nframes - 1) \div interval) + 1

\* The upload or move the latest call's video fails at is one the loop
\* gets to.
UploadFailsInCall ==
    /\ call.input.kind = "video"
    /\ frame_rate >= 1
    /\ 2 * call.input.fps > frame_rate
    /\ call.input.fail_at \in
         1..ImagesSelected(call.input.nframes,
                           RoundHalfEven(call.input.fps, frame_rate))

\* The latest call worked on a video that opened, with a frame rate that
\* exceeds twice the video's frames per second.
ExceedsTwiceFpsCall ==
    /\ call.video # 0
    /\ call.input.kind = "video"
    /\ frame_rate > 2 * call.input.fps

\* The statement of C22 as given: no call raises, and a call whose video
\* cannot be downloaded or opened, one of whose uploads fails, or whose
\* frame rate exceeds twice the video's frames per second returns False.
C22_ZeroIntervalReturnsFalse ==
    call.video # 0 =>
        /\ ~call.raised
        /\ call.input.kind \in {"download_error", "cannot_open"} => ~call.ok
        /\ UploadFailsInCall => ~call.ok
        /\ ExceedsTwiceFpsCall => ~call.ok

\* Something fails in the latest call: the download, the opening, the
\* division by a frame rate of zero, the modulo by an interval of zero once
\* a frame has been read, or an upload.
FailureInCall ==
    \/ call.input.kind \in {"download_error", "cannot_open"}
    \/ frame_rate = 0
    \/ ZeroIntervalCall /\ call.input.nframes >= 1
    \/ UploadFailsInCall

\* C22 (amended): extract_frames lets no exception reach process_video; it
\* returns (False, "Error processing ...") exactly when the download, the
\* opening, the interval computation, the modulo by a zero interval on a
\* frame that was read, or an upload fails, and (True, "Successfully
\* extracted ...") otherwise, also for a video that yields no frame while
\* the interval is zero; process_video logs the result, no task of the pool
\* is given up, and while videos are left the pool can work on one.
C22_ErrorsContained ==
    /\ \A v \in Videos : processed[v] # "raised"
    /\ call.video # 0 =>
          /\ ~call.raised
          /\ call.ok = ~FailureInCall
          /\ call.message.text =
                IF call.ok THEN "Successfully extracted"
                ELSE "Error processing"
          /\ processed[call.video] = IF call.ok THEN "info" ELSE "error"
    /\ (\E v \in Videos : processed[v] = "queued") =>
          \E v \in Videos : CanProcess(v)

\* Every video has been worked on: the first failed, the one after it was
\* processed all the same, and the latest call returned True with no frame
\* extracted although its frame interval was zero.
C22_Witness ==
    /\ \A v \in Videos : processed[v] # "queued"
    /\ processed[1] = "error"
    /\ processed[2] = "info"
    /\ ZeroIntervalCall
    /\ call.input.nframes = 0
    /\ call.ok
    /\ call.message.frames = 0
====
